---------------------------- MODULE Spec2Model ----------------------------
(***************************************************************************)
(* A model of makedoc.py: make_docs(src_path, doc_path, preamble).         *)
(*                                                                         *)
(* Text is a sequence of one-character strings, so that startswith, strip, *)
(* split, replace, the module-data regular expression and int() are        *)
(* computed character by character as Python computes them.  A string      *)
(* literal that the code writes is kept as one element (an atom) of the    *)
(* written text; a document is the sequence of the write() calls made on   *)
(* its file object.                                                        *)
(*                                                                         *)
(* The code is Python 2 (zip() returns a list, list.sort is stable).       *)
(***************************************************************************)
EXTENDS Integers, Sequences, FiniteSets, TLC

(***************************************************************************)
(* Bounds of the checked input space.                                      *)
(***************************************************************************)
MaxLines == 3
MaxFiles == 2

(***************************************************************************)
(* Python string operations.                                               *)
(***************************************************************************)
Whitespace == {" ", "\t", "\n", "\r"}
Letters == {"a", "b", "c", "d", "e", "f", "g", "h", "i", "j", "k", "l", "m",
            "n", "o", "p", "q", "r", "s", "t", "u", "v", "w", "x", "y", "z",
            "A", "B", "C", "D", "E", "F", "G", "H", "I", "J", "K", "L", "M",
            "N", "O", "P", "Q", "R", "S", "T", "U", "V", "W", "X", "Y", "Z"}
DigitVal == [c \in {"0", "1", "2", "3", "4", "5", "6", "7", "8", "9"} |->
               CASE c = "0" -> 0 [] c = "1" -> 1 [] c = "2" -> 2 [] c = "3" -> 3
                 [] c = "4" -> 4 [] c = "5" -> 5 [] c = "6" -> 6 [] c = "7" -> 7
                 [] c = "8" -> 8 [] c = "9" -> 9]
Digits == DOMAIN DigitVal
Chars(s) == {s[k] : k \in 1..Len(s)}
Repeat(c, n) == [k \in 1..n |-> c]
Drop(s, n) == SubSeq(s, n + 1, Len(s))

\* s.startswith(p)
StartsWith(s, p) == Len(s) >= Len(p) /\ SubSeq(s, 1, Len(p)) = p

RECURSIVE LStrip(_, _)
LStrip(s, cs) == IF s # <<>> /\ Head(s) \in cs THEN LStrip(Tail(s), cs) ELSE s
RECURSIVE RStrip(_, _)
RStrip(s, cs) ==
    IF s # <<>> /\ s[Len(s)] \in cs THEN RStrip(SubSeq(s, 1, Len(s) - 1), cs) ELSE s
\* s.strip(chars): every leading and trailing character that is in chars
Strip(s, cs) == RStrip(LStrip(s, cs), cs)
\* s.strip()
StripWS(s) == Strip(s, Whitespace)

RECURSIVE Split(_, _)
\* s.split(c) for a one-character separator: the list of parts
Split(s, c) ==
    IF c \notin Chars(s) THEN <<s>>
    ELSE LET k == CHOOSE j \in 1..Len(s) : s[j] = c /\ \A m \in 1..(j - 1) : s[m] # c
         IN <<SubSeq(s, 1, k - 1)>> \o Split(Drop(s, k), c)

RECURSIVE Replace(_, _)
\* s.replace(old, ""): every non-overlapping occurrence, left to right
Replace(s, old) ==
    IF s = <<>> THEN <<>>
    ELSE IF StartsWith(s, old) THEN Replace(Drop(s, Len(old)), old)
    ELSE <<Head(s)>> \o Replace(Tail(s), old)

\* os.path.basename(p): what follows the last "/"
Basename(p) == LET parts == Split(p, "/") IN parts[Len(parts)]

RECURSIVE DigitsValue(_)
DigitsValue(s) ==
    IF s = <<>> THEN 0 ELSE 10 * DigitsValue(SubSeq(s, 1, Len(s) - 1)) + DigitVal[s[Len(s)]]
\* ParseInt that takes whatever is no integer literal for 0 instead of raising
ParseInt_Lenient(s) ==
    LET t == StripWS(s)
        signed == t # <<>> /\ Head(t) \in {"+", "-"}
        d == IF signed THEN Tail(t) ELSE t
        good == d # <<>> /\ Chars(d) \subseteq Digits
    IN [ok |-> TRUE,
        val |-> IF ~good THEN 0
                ELSE IF signed /\ Head(t) = "-" THEN 0 - DigitsValue(d) ELSE DigitsValue(d)]

\* int(s): optional surrounding whitespace, optional sign, one or more digits;
\* anything else raises ValueError (ok = FALSE)
ParseInt(s) ==
    LET t == StripWS(s)
        signed == t # <<>> /\ Head(t) \in {"+", "-"}
        d == IF signed THEN Tail(t) ELSE t
        good == d # <<>> /\ Chars(d) \subseteq Digits
    IN [ok |-> good,
        val |-> IF ~good THEN 0
                ELSE IF signed /\ Head(t) = "-" THEN 0 - DigitsValue(d) ELSE DigitsValue(d)]

RECURSIVE IdentLen(_)
\* length of the longest prefix of s made of [A-Za-z0-9_]
IdentLen(s) ==
    IF s # <<>> /\ Head(s) \in Letters \cup Digits \cup {"_"} THEN 1 + IdentLen(Tail(s)) ELSE 0
\* re.compile(r"[A-Za-z][A-Za-z0-9_]* =").match(line): the matched text, or <<>>
\* when there is no match (a space is no identifier character, so the greedy
\* star never has to give anything back)
ModuleDataMatch(line) ==
    IF line # <<>> /\ Head(line) \in Letters
    THEN LET n == 1 + IdentLen(Tail(line))
         IN IF StartsWith(Drop(line, n), <<" ", "=">>) THEN SubSeq(line, 1, n + 2) ELSE <<>>
    ELSE <<>>

(***************************************************************************)
(* Program constants.                                                      *)
(***************************************************************************)
StartOrder == 1000
OrderStep == 20

\* Python's None: an optional value is a sequence of length 0 or 1.
None == <<>>
Some(v) == <<v>>
\* "not order" for order in {None} \cup int
NotOrder(order) == order = None \/ order[1] = 0

(***************************************************************************)
(* Source text used as input.                                              *)
(***************************************************************************)
LBlank == <<"\n">>
LHash == <<"#", "\n">>
LTitle == <<"#", " ", "T", "\n">>
LHash2 == <<"#", "#", "\n">>
LSub == <<"#", "#", " ", "S", "\n">>
LDocMark == <<"#", ":", "\n">>
LData == <<"X", " ", "=", " ", "1", "\n">>
LQuote == <<"\"", "\"", "\"", "\n">>
LDef == <<"d", "e", "f", " ", "f", "(", ")", ":", "\n">>
LDefPrivate == <<"d", "e", "f", " ", "_", "g", "(", ")", ":", "\n">>
LDefSpaced == <<"d", "e", "f", " ", "h", " ", "(", ")", ":", "\n">>
LClass == <<"c", "l", "a", "s", "s", " ", "C", ":", "\n">>
OrderKey == <<"_", "_", "o", "r", "d", "e", "r", "_", "_">>
VersionKey == <<"_", "_", "v", "e", "r", "s", "i", "o", "n", "_", "_">>
Assign(key, value) == key \o <<" ", "=", " ">> \o value \o <<"\n">>
LOrder5 == Assign(OrderKey, <<"5">>)
LOrder3 == Assign(OrderKey, <<"3">>)
LOrder0 == Assign(OrderKey, <<"0">>)
LOrder2000 == Assign(OrderKey, <<"2", "0", "0", "0">>)
LOrderBad == Assign(OrderKey, <<"x">>)
LOrderNoEq == OrderKey \o <<"\n">>
LVersion == Assign(VersionKey, <<"1">>)

NameA == <<"a", ".", "p", "y">>
NameB == <<"b", ".", "p", "y">>
NameAPy == <<"a", ".", "p", "y", ".", "p", "y">>
SrcPath == <<"l", "i", "b">>
OldDoc == <<"o", "l", "d", ".", "r", "s", "t">>
IndexFn == <<"i", "n", "d", "e", "x", ".", "r", "s", "t">>
RstExt == <<".", "r", "s", "t">>
PyExt == <<".", "p", "y">>

\* Lines of the files whose scan is checked window by window.
ScanLines == {LBlank, LHash, LTitle, LHash2, LSub, LDocMark, LData, LQuote,
              LDef, LDefPrivate, LDefSpaced, LClass}
ScanFiles == {[name |-> NameA, lines |-> l] :
                 l \in UNION {[1..n -> ScanLines] : n \in 0..MaxLines}}
\* Files of the runs over several files: what they declare as metadata.
BatchTexts == {<<LBlank, LBlank>>,
               <<LBlank, LOrder5, LBlank>>,
               <<LBlank, LOrder0, LBlank>>,
               <<LBlank, LOrder2000, LBlank>>,
               <<LBlank, LOrder5, LOrder3, LBlank>>,
               <<LBlank, LVersion, LOrderBad, LBlank>>,
               <<LBlank, LOrderNoEq, LBlank>>,
               <<LOrder5, LBlank, LOrderBad>>}
BatchFiles == {[name |-> n, lines |-> l] : n \in {NameA, NameB, NameAPy}, l \in BatchTexts}
\* glob.glob lists each path once
Batches == {b \in UNION {[1..n -> BatchFiles] : n \in 0..MaxFiles} :
               \A j, k \in 1..Len(b) : j # k => b[j].name # b[k].name}
Listings == {<<f>> : f \in ScanFiles} \cup Batches
Preambles == {<<>>, <<"P">>}

(***************************************************************************)
(* State.                                                                  *)
(***************************************************************************)
VARIABLES
    files,      \* glob.glob(src_path/*.py) with each file's lines, in listing order
    preamble,   \* the preamble argument
    source,     \* doc_path/source: "absent", "dir" or "file"
    srcConf,    \* source/conf.py: "none", or whose text it holds ("ws", "root")
    rootConf,   \* doc_path/conf.py: "none", "ws" or "root"
    docs,       \* the other files of source/: name -> the writes made to it
    build,      \* doc_path/build: "old" or "html"
    pc,         \* position in make_docs
    error,      \* the exception that ended the run
    fi,         \* 1-based position of src_fn in the listing
    i,          \* the loop variable i of both line loops
    srclines, mod_name, rst_fn, rstfo, indexfo,
    version, order, mod_names, mod_order, max_order,
    own_order   \* history: per processed file, the order value that is its own

vars == <<files, preamble, source, srcConf, rootConf, docs, build, pc, error, fi, i,
          srclines, mod_name, rst_fn, rstfo, indexfo, version, order,
          mod_names, mod_order, max_order, own_order>>

EmptyDir == [n \in {} |-> <<>>]
StaleDir == [n \in {OldDoc} |-> <<<<"old">>>>]
\* open(fn, "w") then the writes: the file is created or truncated
WithFile(dir, fn, writes) ==
    [n \in DOMAIN dir \cup {fn} |-> IF n = fn THEN writes ELSE dir[n]]

\* The build root as a run may find it: source/ may be missing, and it is a
\* regular file after a run that found it missing (see Stage).
Init ==
    /\ files \in Listings
    /\ preamble \in Preambles
    /\ source \in {"absent", "dir", "file"}
    /\ srcConf \in IF source = "dir" THEN {"none", "ws"} ELSE {"none"}
    /\ rootConf \in {"none", "root"}
    /\ docs \in IF source = "dir" THEN {EmptyDir, StaleDir} ELSE {EmptyDir}
    /\ build = "old"
    /\ pc = "stage"
    /\ error = "none"
    /\ fi = 1
    /\ i = 0
    /\ srclines = <<>>
    /\ mod_name = <<>>
    /\ rst_fn = <<>>
    /\ rstfo = "none"
    /\ indexfo = "none"
    /\ version = None
    /\ order = None
    /\ mod_names = <<>>
    /\ mod_order = <<>>
    /\ max_order = StartOrder
    /\ own_order = <<>>

\* An uncaught exception: make_docs is left with everything as it stands.
Raise(exc) == pc' = "failed" /\ error' = exc

(***************************************************************************)
(* What one window (prev_line, line, next_line) writes to the module       *)
(* document.                                                               *)
(***************************************************************************)
\* HeadingWrites with the test of the current line reduced to the marker alone
\* (the space after it forgotten)
HeadingWrites_NoSpace(delim, underline, prev_line, line, next_line) ==
    IF /\ StartsWith(prev_line, delim)
       /\ StartsWith(line, delim)
       /\ StartsWith(next_line, delim)
    THEN LET heading == StripWS(Strip(line, Chars(delim)))
         IN <<(<<"\n">> \o heading \o <<"\n">>),
              (Repeat(underline, Len(heading)) \o <<"\n\n">>)>>
    ELSE <<>>

\* lines 250-256, for one (delim, underline) of the loop
HeadingWrites(delim, underline, prev_line, line, next_line) ==
    IF /\ StartsWith(prev_line, delim)
       /\ StartsWith(line, delim \o <<" ">>)
       /\ StartsWith(next_line, delim)
    THEN LET heading == StripWS(Strip(line, Chars(delim)))
         IN <<(<<"\n">> \o heading \o <<"\n">>),
              (Repeat(underline, Len(heading)) \o <<"\n\n">>)>>
    ELSE <<>>

DataWrites(prev_line, line, next_line) ==
    LET m == ModuleDataMatch(line)
    IN IF m # <<>> /\ (\/ StartsWith(prev_line, <<"#", ":">>)
                       \/ StartsWith(next_line, <<"\"", "\"", "\"">>))
       THEN <<(<<".. autodata:: ">> \o Replace(m, <<" ", "=">>) \o <<"\n">>)>>
       ELSE <<>>

FuncWrites(line) ==
    IF StartsWith(line, <<"d", "e", "f", " ">>)
    THEN LET func_name == Split(StripWS(Strip(line, {"d", "e", "f"})), "(")[1]
         IN IF ~StartsWith(func_name, <<"_">>)
            THEN <<(<<".. autofunction:: ">> \o func_name \o <<"\n">>)>>
            ELSE <<>>
    ELSE <<>>

ClassWrites(line) ==
    IF StartsWith(line, <<"c", "l", "a", "s", "s", " ">>)
    THEN LET cls_name == Split(StripWS(Strip(line, {"c", "l", "a", "s"})), "(")[1]
         IN <<(<<".. autoclass:: ">> \o cls_name \o <<"\n">>), <<" :members:\n">>>>
    ELSE <<>>

WindowWrites(prev_line, line, next_line) ==
    HeadingWrites(<<"#">>, "-", prev_line, line, next_line)
    \o HeadingWrites(<<"#", "#">>, "~", prev_line, line, next_line)
    \o DataWrites(prev_line, line, next_line)
    \o FuncWrites(line)
    \o ClassWrites(line)

\* mod_name + "\n", "=" * len(mod_name) + "\n\n", ":Date: |today|\n"
HeaderWrites(name) ==
    <<(name \o <<"\n">>), (Repeat("=", Len(name)) \o <<"\n\n">>), <<":Date: |today|\n">>>>
BindingWrites(name) ==
    <<(<<".. currentmodule:: ">> \o name \o <<"\n">>),
      (<<".. automodule:: ">> \o name \o <<"\n">>)>>

\* range(1, len(srclines) - 1) still has the value i
InRange(k, lines) == k < Len(lines) - 1
\* srclines[k] of Python (0-based)
At(lines, k) == lines[k + 1]

(***************************************************************************)
(* The index: zip, the stable sort, and the writes.                        *)
(***************************************************************************)
Min(a, b) == IF a < b THEN a ELSE b
\* zip(mod_names, mod_order): as long as the shorter list
Zip(names, orders) ==
    [k \in 1..Min(Len(names), Len(orders)) |-> [name |-> names[k], order |-> orders[k]]]
RECURSIVE InsertByOrder(_, _)
\* x put behind every element whose key is not greater
InsertByOrder(sorted, x) ==
    IF sorted = <<>> THEN <<x>>
    ELSE IF sorted[Len(sorted)].order <= x.order THEN Append(sorted, x)
    ELSE Append(InsertByOrder(SubSeq(sorted, 1, Len(sorted) - 1), x), sorted[Len(sorted)])
RECURSIVE SortByOrder(_)
\* modules.sort(key=lambda x: x[1]): stable
SortByOrder(modules) ==
    IF modules = <<>> THEN <<>>
    ELSE InsertByOrder(SortByOrder(SubSeq(modules, 1, Len(modules) - 1)), modules[Len(modules)])

TocWrites(names, orders) ==
    LET modules == SortByOrder(Zip(names, orders))
    IN [k \in 1..Len(modules) |-> <<" ">> \o modules[k].name \o <<"\n">>]

\* len("Welcome to 's documentation!") and len("Indices and tables")
WelcomeLen == 28
TablesLen == 18
IndexHead(dir_name, pre) ==
    <<(<<"Welcome to ">> \o dir_name \o <<"'s documentation!", "\n">>),
      (Repeat("=", WelcomeLen + Len(dir_name)) \o <<"\n\n">>),
      <<":Date: |today|\n\n">>,
      (IF pre # <<>> THEN pre \o <<"\n\n">> ELSE pre),
      <<".. toctree::\n">>,
      <<" :maxdepth: 3\n\n">>>>
\* (the three entries are written with a backquote on each side of the target
\* name, a character a TLA+ string cannot hold; it is left out of the atoms)
IndexTail ==
    <<<<"\n", "Indices and tables", "\n">>,
      (Repeat("-", TablesLen) \o <<"\n\n">>),
      <<"* :ref:genindex\n">>,
      <<"* :ref:modindex\n">>,
      <<"* :ref:search\n">>>>

(***************************************************************************)
(* make_docs, step by step.                                                *)
(***************************************************************************)
\* os.path.join(src_path, name) as glob returns it
SrcFn(name) == SrcPath \o <<"/">> \o name
\* os.path.basename(src_fn.replace(".py", ""))
ModName(src_fn) == Basename(Replace(src_fn, PyExt))
\* os.path.join("source", mod_name + ".rst"), as a name inside source/
RstFn(name) == name \o RstExt

\* Staging: conf.py is saved to the build root, source/ is removed and made
\* anew, conf.py is copied back.
Stage ==
    /\ pc = "stage"
    /\ LET copied == source = "dir" /\ srcConf # "none"
           saved == IF copied THEN srcConf ELSE rootConf
       IN IF saved = "none"
          THEN \* the copy raised IOError and the assertion fails
               /\ Raise("AssertionError")
               /\ UNCHANGED <<source, srcConf, rootConf, docs>>
          ELSE /\ rootConf' = saved
               /\ error' = error
               /\ IF source = "dir"
                  THEN \* rmtree and makedirs succeed; conf.py is copied into source/
                       /\ source' = "dir"
                       /\ docs' = EmptyDir
                       /\ srcConf' = saved
                       /\ pc' = "loop"
                  ELSE \* rmtree raises OSError, which skips makedirs; the copy
                       \* then creates (or overwrites) a file called source
                       /\ source' = "file"
                       /\ srcConf' = "none"
                       /\ docs' = docs
                       /\ pc' = "loop"
    /\ UNCHANGED <<files, preamble, build, fi, i, srclines, mod_name, rst_fn, rstfo,
                   indexfo, version, order, mod_names, mod_order, max_order, own_order>>

\* The next src_fn of the listing: its name, its lines (opened, read, closed).
ReadSource ==
    /\ pc = "loop"
    /\ fi <= Len(files)
    /\ mod_name' = ModName(SrcFn(files[fi].name))
    /\ srclines' = files[fi].lines
    /\ pc' = "open"
    /\ UNCHANGED <<files, preamble, source, srcConf, rootConf, docs, build, error, fi, i,
                   rst_fn, rstfo, indexfo, version, order, mod_names, mod_order,
                   max_order, own_order>>

\* The module document is opened and its title and date are written.
OpenRst ==
    /\ pc = "open"
    /\ IF source # "dir"
       THEN /\ Raise("IOError")
            /\ UNCHANGED <<docs, rst_fn, rstfo, version, order, i>>
       ELSE /\ rst_fn' = RstFn(mod_name)
            /\ docs' = WithFile(docs, RstFn(mod_name), HeaderWrites(mod_name))
            /\ rstfo' = "open"
            /\ version' = None
            /\ order' = None
            /\ i' = 1
            /\ pc' = "meta"
            /\ error' = error
    /\ UNCHANGED <<files, preamble, source, srcConf, rootConf, build, fi, srclines,
                   mod_name, indexfo, mod_names, mod_order, max_order, own_order>>

\* One line of the metadata loop.
MetaLine ==
    /\ pc = "meta"
    /\ InRange(i, srclines)
    /\ LET line == At(srclines, i)
           parts == Split(line, "=")
           value == StripWS(Strip(parts[2], {"\n"}))
       IN IF StartsWith(line, VersionKey)
          THEN IF Len(parts) < 2
               THEN Raise("IndexError") /\ UNCHANGED <<version, docs, order, mod_order, i>>
               ELSE /\ version' = Some(value)
                    /\ docs' = [docs EXCEPT ![rst_fn] =
                                   Append(@, <<":Version: ">> \o value \o <<"\n">>)]
                    /\ i' = i + 1
                    /\ UNCHANGED <<pc, error, order, mod_order>>
          ELSE IF StartsWith(line, OrderKey)
          THEN IF Len(parts) < 2
               THEN Raise("IndexError") /\ UNCHANGED <<version, docs, order, mod_order, i>>
               ELSE IF ~ParseInt(value).ok
               THEN Raise("ValueError") /\ UNCHANGED <<version, docs, order, mod_order, i>>
               ELSE /\ order' = Some(ParseInt(value).val)
                    /\ mod_order' = Append(mod_order, ParseInt(value).val)
                    /\ i' = i + 1
                    /\ UNCHANGED <<pc, error, version, docs>>
          ELSE /\ i' = i + 1
               /\ UNCHANGED <<pc, error, version, docs, order, mod_order>>
    /\ UNCHANGED <<files, preamble, source, srcConf, rootConf, build, fi, srclines,
                   mod_name, rst_fn, rstfo, indexfo, mod_names, max_order, own_order>>

\* After the metadata loop: the synthetic order, then the two binding directives.
MetaDone ==
    /\ pc = "meta"
    /\ ~InRange(i, srclines)
    /\ IF NotOrder(order)
       THEN /\ mod_order' = Append(mod_order, max_order)
            /\ max_order' = max_order + OrderStep
       ELSE UNCHANGED <<mod_order, max_order>>
    /\ own_order' = Append(own_order, IF order # None THEN order[1] ELSE max_order)
    /\ docs' = [docs EXCEPT ![rst_fn] = @ \o BindingWrites(mod_name)]
    /\ i' = 1
    /\ pc' = "body"
    /\ UNCHANGED <<files, preamble, source, srcConf, rootConf, build, error, fi, srclines,
                   mod_name, rst_fn, rstfo, indexfo, version, order, mod_names>>

\* One window of the scan loop.
BodyLine ==
    /\ pc = "body"
    /\ InRange(i, srclines)
    /\ docs' = [docs EXCEPT ![rst_fn] =
                   @ \o WindowWrites(At(srclines, i - 1), At(srclines, i), At(srclines, i + 1))]
    /\ i' = i + 1
    /\ UNCHANGED <<files, preamble, source, srcConf, rootConf, build, pc, error, fi,
                   srclines, mod_name, rst_fn, rstfo, indexfo, version, order,
                   mod_names, mod_order, max_order, own_order>>

\* CloseRst with the close forgotten
CloseRst_NoClose ==
    /\ pc = "body"
    /\ ~InRange(i, srclines)
    /\ mod_names' = Append(mod_names, mod_name)
    /\ fi' = fi + 1
    /\ pc' = "loop"
    /\ UNCHANGED <<files, preamble, source, srcConf, rootConf, docs, build, error, i,
                   srclines, mod_name, rst_fn, rstfo, indexfo, version, order, mod_order,
                   max_order, own_order>>

\* rstfo.close(); mod_names.append(mod_name)
CloseRst ==
    /\ pc = "body"
    /\ ~InRange(i, srclines)
    /\ rstfo' = "closed"
    /\ mod_names' = Append(mod_names, mod_name)
    /\ fi' = fi + 1
    /\ pc' = "loop"
    /\ UNCHANGED <<files, preamble, source, srcConf, rootConf, docs, build, error, i,
                   srclines, mod_name, rst_fn, indexfo, version, order, mod_order,
                   max_order, own_order>>

\* The index document is opened and written.
WriteIndex ==
    /\ pc = "loop"
    /\ fi > Len(files)
    /\ IF source # "dir"
       THEN Raise("IOError") /\ UNCHANGED <<docs, indexfo>>
       ELSE /\ docs' = WithFile(docs, IndexFn,
                                IndexHead(Basename(SrcPath), preamble)
                                \o TocWrites(mod_names, mod_order)
                                \o IndexTail)
            /\ indexfo' = "open"
            /\ pc' = "index"
            /\ error' = error
    /\ UNCHANGED <<files, preamble, source, srcConf, rootConf, build, fi, i, srclines,
                   mod_name, rst_fn, rstfo, version, order, mod_names, mod_order,
                   max_order, own_order>>

\* indexfo.close()
CloseIndex ==
    /\ pc = "index"
    /\ indexfo' = "closed"
    /\ pc' = "build"
    /\ UNCHANGED <<files, preamble, source, srcConf, rootConf, docs, build, error, fi, i,
                   srclines, mod_name, rst_fn, rstfo, version, order, mod_names,
                   mod_order, max_order, own_order>>

\* shutil.rmtree("build") with OSError ignored, then os.system("make html")
MakeHtml ==
    /\ pc = "build"
    /\ build' = "html"
    /\ pc' = "done"
    /\ UNCHANGED <<files, preamble, source, srcConf, rootConf, docs, error, fi, i,
                   srclines, mod_name, rst_fn, rstfo, indexfo, version, order,
                   mod_names, mod_order, max_order, own_order>>

Next ==
    \/ Stage
    \/ ReadSource
    \/ OpenRst
    \/ MetaLine
    \/ MetaDone
    \/ BodyLine
    \/ CloseRst
    \/ WriteIndex
    \/ CloseIndex
    \/ MakeHtml

Spec == Init /\ [][Next]_vars

(***************************************************************************)
(* Vocabulary of the properties.  These definitions state what the         *)
(* specification expects; none of them is used by the actions above.       *)
(***************************************************************************)
RECURSIVE Flatten(_)
Flatten(ss) == IF ss = <<>> THEN <<>> ELSE Head(ss) \o Flatten(Tail(ss))

\* The module document of the file just processed has been closed.
FileDone == pc = "loop" /\ rstfo = "closed"
LastDoc == docs[rst_fn]

IsDataLine(w) == w # <<>> /\ w[1] = ".. autodata:: "
IsFuncLine(w) == w # <<>> /\ w[1] = ".. autofunction:: "
IsDirective(w) ==
    w # <<>> /\ w[1] \in {".. autodata:: ", ".. autofunction:: ", ".. autoclass:: ",
                          " :members:\n"}
IsHeadingPart(w) == ~IsDirective(w)
\* what was written after the header block
BodyOf(doc) ==
    LET k == CHOOSE n \in 1..Len(doc) : doc[n] # <<>> /\ doc[n][1] = ".. automodule:: "
    IN Drop(doc, k)

\* the text of a line after its first n characters, without surrounding whitespace
TextAfter(line, n) == StripWS(SubSeq(line, n + 1, Len(line)))
Identifier(line) == SubSeq(line, 1, IdentLen(line))
IsCandidate(line) == ModuleDataMatch(line) # <<>>
\* the gates of line k (1-based) of lines
GateBefore(lines, k) == k > 1 /\ StartsWith(lines[k - 1], <<"#", ":">>)
GateAfter(lines, k) == k < Len(lines) /\ StartsWith(lines[k + 1], <<"\"", "\"", "\"">>)

(***************************************************************************)
(* C3.  Module-level data.                                                 *)
(***************************************************************************)
ExpectedData(lines) ==
    Flatten([k \in 1..Len(lines) |->
                IF IsCandidate(lines[k]) /\ (GateBefore(lines, k) \/ GateAfter(lines, k))
                THEN <<(<<".. autodata:: ">> \o Identifier(lines[k]) \o <<"\n">>)>>
                ELSE <<>>])

\* C3: when a module document is closed, its autodata lines are exactly one
\* line, naming the identifier, for every candidate line of the source file
\* (any line of it) whose preceding line starts with #: or whose following
\* line starts with three double quotes, in source order, and none for any
\* other line.
C3_DataIffGated == FileDone => SelectSeq(LastDoc, IsDataLine) = ExpectedData(srclines)

(***************************************************************************)
(* C4.  Function definitions.                                              *)
(***************************************************************************)
DefToken == <<"d", "e", "f", " ">>
\* the text between the token and the first "(", trimmed
DefName(line) == StripWS(Split(Drop(line, Len(DefToken)), "(")[1])
ExpectedFuncs(lines) ==
    Flatten([k \in 1..Len(lines) |->
                IF StartsWith(lines[k], DefToken) /\ ~StartsWith(DefName(lines[k]), <<"_">>)
                THEN <<(<<".. autofunction:: ">> \o DefName(lines[k]) \o <<"\n">>)>>
                ELSE <<>>])

\* C4: when a module document is closed, its autofunction lines are exactly
\* one line, holding the trimmed name, for every line of the source file
\* (wherever it is) that starts with "def " and whose name does not start with
\* an underscore, in source order, and none for any other line.
C4_DefLines == FileDone => SelectSeq(LastDoc, IsFuncLine) = ExpectedFuncs(srclines)

(***************************************************************************)
(* C5.  Headings.                                                          *)
(***************************************************************************)
Fenced(marker, prev_line, line, next_line) ==
    /\ StartsWith(prev_line, marker)
    /\ StartsWith(line, marker \o <<" ">>)
    /\ StartsWith(next_line, marker)
Heading(text, underline) ==
    <<(<<"\n">> \o text \o <<"\n">>), ([n \in 1..Len(text) |-> underline] \o <<"\n\n">>)>>
\* at most one heading for a window
ExpectedHeading(prev_line, line, next_line) ==
    IF Fenced(<<"#">>, prev_line, line, next_line)
    THEN Heading(TextAfter(line, 1), "-")
    ELSE IF Fenced(<<"#", "#">>, prev_line, line, next_line)
    THEN Heading(TextAfter(line, 2), "~")
    ELSE <<>>
ExpectedHeadings(lines) ==
    Flatten([k \in 1..(Len(lines) - 2) |->
                ExpectedHeading(lines[k], lines[k + 1], lines[k + 2])])

\* C5: when a module document is closed, what it holds besides the header
\* block and the directive lines is, window by window in source order, one
\* heading for every window whose previous line starts with the marker, whose
\* current line starts with marker + space and whose next line starts with the
\* marker, and nothing for any other window: the trimmed text and as many "-"
\* as the text is long for the marker "#", the trimmed text and as many "~"
\* for the marker "##", never both for one window.
C5_Headings ==
    FileDone => SelectSeq(BodyOf(LastDoc), IsHeadingPart) = ExpectedHeadings(srclines)

\* C5 witness: a closed document of a three-line file whose window is fenced
\* with "##", holding the level-2 heading of that window and no other heading.
C5_Witness ==
    /\ FileDone
    /\ Len(srclines) = 3
    /\ Fenced(<<"#", "#">>, srclines[1], srclines[2], srclines[3])
    /\ SelectSeq(BodyOf(LastDoc), IsHeadingPart) = Heading(<<"S">>, "~")

(***************************************************************************)
(* C1, C2, C10.  The index and the order values.                           *)
(***************************************************************************)
\* the toctree entries of an index document: what lies between its six-write
\* head and its five-write trailer
TocEntries(doc) == SubSeq(doc, Len(IndexHead(<<>>, <<>>)) + 1, Len(doc) - Len(IndexTail))
TocEntry(name) == <<" ">> \o name \o <<"\n">>
\* place of element k in the stable ascending sort of the keys
Rank(keys, k) ==
    1 + Cardinality({j \in 1..Len(keys) :
                        keys[j] < keys[k] \/ (keys[j] = keys[k] /\ j < k)})
SortedNames(names, keys) ==
    [p \in 1..Len(names) |-> names[CHOOSE k \in 1..Len(names) : Rank(keys, k) = p]]
\* own_order[k] is the order value of the k-th processed module: the integer
\* its file declares (the last one, should it declare several), or the
\* synthetic value it was given when it declares none.

\* C1: once the index is written, its toctree lists the processed module
\* names, each once, in ascending order of each module's own order value,
\* modules of equal value in the order of encounter.
C1_TocOrdered ==
    indexfo # "none" =>
        TocEntries(docs[IndexFn]) =
            [p \in 1..Len(mod_names) |-> TocEntry(SortedNames(mod_names, own_order)[p])]

\* an __order__ line among the lines the metadata loop reads
DeclaresOrder(lines) == \E n \in 2..(Len(lines) - 1) : StartsWith(lines[n], OrderKey)
Position(seq, x) == CHOOSE p \in 1..Len(seq) : seq[p] = x

\* C2: a synthetic order value is greater than every order value assigned
\* before it in the run, synthetic values grow by the fixed step, and in the
\* index every module without a declaration comes after every module with one.
C2_SyntheticLast ==
    /\ (pc = "body" /\ i = 1 /\ order = None) =>
           /\ \A j \in 1..(Len(mod_order) - 1) : mod_order[Len(mod_order)] > mod_order[j]
           /\ max_order = mod_order[Len(mod_order)] + OrderStep
    /\ indexfo # "none" =>
           \A d, u \in 1..Len(files) :
               (/\ DeclaresOrder(files[d].lines)
                /\ ~DeclaresOrder(files[u].lines)
                /\ mod_names[d] # mod_names[u])
               => Position(TocEntries(docs[IndexFn]), TocEntry(mod_names[d]))
                    < Position(TocEntries(docs[IndexFn]), TocEntry(mod_names[u]))

\* C10: between two files, the list of names and the list of order values are
\* equally long, and the k-th order value is the own value of the k-th module.
C10_ListsAligned ==
    pc = "loop" =>
        /\ Len(mod_order) = Len(mod_names)
        /\ \A k \in 1..Len(mod_names) : mod_order[k] = own_order[k]

(***************************************************************************)
(* C6.  A malformed order declaration.                                     *)
(***************************************************************************)
\* the text is an integer literal: an optional sign and one or more digits,
\* with optional whitespace around it
IsIntegerText(s) ==
    LET t == StripWS(s)
        body == IF t # <<>> /\ t[1] \in {"+", "-"} THEN Tail(t) ELSE t
    IN Len(body) > 0 /\ \A n \in 1..Len(body) : body[n] \in Digits
\* the line is an order declaration whose value is no integer
BadOrderLine(line) ==
    /\ StartsWith(line, OrderKey)
    /\ LET parts == Split(line, "=") IN Len(parts) < 2 \/ ~IsIntegerText(parts[2])
\* the run never gets past the k-th file: no later file is read, no index is
\* written, the build command is not invoked, and every document closed so far
\* is in the output workspace
StopsAt(k) ==
    /\ fi <= k
    /\ Len(mod_names) < k
    /\ indexfo = "none"
    /\ IndexFn \notin DOMAIN docs
    /\ build # "html"
    /\ \A j \in 1..Len(mod_names) : RstFn(mod_names[j]) \in DOMAIN docs

\* C6 as stated: a file with a malformed order declaration on any of its lines
\* stops the run.
C6_AbortOnBadOrder ==
    \A k \in 1..Len(files) :
        (\E n \in 1..Len(files[k].lines) : BadOrderLine(files[k].lines[n])) => StopsAt(k)

\* C6 as amended: a file with a malformed order declaration on a line other
\* than its first and its last stops the run: the run never gets past that
\* file, and once the file's metadata has been read the run has failed.
C6_AbortOnScannedBadOrder ==
    \A k \in 1..Len(files) :
        (\E n \in 2..(Len(files[k].lines) - 1) : BadOrderLine(files[k].lines[n]))
        => /\ StopsAt(k)
           /\ (fi = k /\ pc \notin {"stage", "loop", "open", "meta"}) => pc = "failed"

\* C6 witness: the second file of a listing has a malformed declaration, the
\* run has failed on it with ValueError, and the first file's document is there.
C6_Witness ==
    /\ pc = "failed"
    /\ error = "ValueError"
    /\ fi = 2
    /\ \E n \in 2..(Len(files[2].lines) - 1) : BadOrderLine(files[2].lines[n])
    /\ Len(mod_names) = 1
    /\ RstFn(mod_names[1]) \in DOMAIN docs
    /\ rstfo = "open"

(***************************************************************************)
(* C7.  Staging.                                                           *)
(***************************************************************************)
\* C7: from a build root where conf.py is in the output workspace or in the
\* build root, staging leaves the output workspace a directory holding conf.py
\* (the workspace's copy if there was one, else the build root's) and nothing
\* of what was generated before; where conf.py is in neither place, the run
\* fails with no module document written.
C7_Staging ==
    [][pc = "stage" =>
          IF (source = "dir" /\ srcConf # "none") \/ rootConf # "none"
          THEN /\ pc' = "loop"
               /\ source' = "dir"
               /\ srcConf' = (IF source = "dir" /\ srcConf # "none" THEN srcConf ELSE rootConf)
               /\ docs' = EmptyDir
          ELSE /\ pc' = "failed"
               /\ rstfo' = "none"
               /\ docs' = docs]_vars

(***************************************************************************)
(* C8.  One module document per source file.                               *)
(***************************************************************************)
\* the file name without its extension, with the target extension
DocNameOf(name) == SubSeq(name, 1, Len(name) - Len(PyExt)) \o RstExt
ModuleNameOf(name) == SubSeq(name, 1, Len(name) - Len(PyExt))
Recognised(line) ==
    \/ StartsWith(line, <<"#">>)
    \/ StartsWith(line, DefToken)
    \/ StartsWith(line, <<"c", "l", "a", "s", "s", " ">>)
    \/ IsCandidate(line)
    \/ StartsWith(line, OrderKey)
    \/ StartsWith(line, VersionKey)
HeaderBlock(name) ==
    <<(name \o <<"\n">>),
      ([n \in 1..Len(name) |-> "="] \o <<"\n\n">>),
      <<":Date: |today|\n">>,
      (<<".. currentmodule:: ">> \o name \o <<"\n">>),
      (<<".. automodule:: ">> \o name \o <<"\n">>)>>

\* C8: after a completed run the output workspace holds, besides the index,
\* exactly one document per source file, named after the file with the source
\* extension replaced by the target extension, and the document of a file
\* without any recognised pattern is the header block alone.
C8_OneDocPerFile ==
    pc = "done" =>
        /\ DOMAIN docs \ {IndexFn} = {DocNameOf(files[k].name) : k \in 1..Len(files)}
        /\ Cardinality(DOMAIN docs \ {IndexFn}) = Len(files)
        /\ \A k \in 1..Len(files) :
               (\A n \in 1..Len(files[k].lines) : ~Recognised(files[k].lines[n]))
               => docs[DocNameOf(files[k].name)] = HeaderBlock(ModuleNameOf(files[k].name))

(***************************************************************************)
(* C9.  The order of the steps.                                            *)
(***************************************************************************)
\* C9: a module document is open or written only after staging; a source file
\* is read only while no module document is open; the index is written only
\* when the document of every listed file has been written and closed; the
\* build command is invoked only after the index has been written and closed.
C9_StepOrder ==
    /\ pc = "stage" => (rstfo = "none" /\ mod_names = <<>> /\ indexfo = "none")
    /\ pc = "open" => rstfo # "open"
    /\ pc \in {"meta", "body"} =>
           (rstfo = "open" /\ Len(mod_names) = fi - 1 /\ indexfo = "none")
    /\ indexfo # "none" =>
           /\ rstfo # "open"
           /\ Len(mod_names) = Len(files)
           /\ \A k \in 1..Len(files) : RstFn(ModName(SrcFn(files[k].name))) \in DOMAIN docs
           /\ IndexFn \in DOMAIN docs
    /\ build = "html" => indexfo = "closed"

\* C9 witness: a run over two files has gone through every step.
C9_Witness ==
    /\ pc = "done"
    /\ Len(files) = 2
    /\ build = "html"
    /\ indexfo = "closed"
    /\ rstfo = "closed"

=============================================================================
